---- MODULE Spec2Model ----
(***************************************************************************)
(* Region growth of pytraits/image/region.py: get_kernel_border_coordinates*)
(* random_grid, VicinityIterator and Generator_RB (with its Checker).      *)
(*                                                                         *)
(* numpy arrays are objects of a heap (id -> flat array), so that two      *)
(* names bound to the same array alias each other as they do in Python.    *)
(* A flat array of a (size.y, size.x) grid holds cell [y, x] at y*size.x+x.*)
(* Python lists that are shuffled in place (the neighbour offsets) are     *)
(* objects too, in a store of their own: id -> list.                       *)
(* A reference is <<id>>; None is <<>>.                                    *)
(***************************************************************************)
EXTENDS Integers, Sequences, FiniteSets, TLC

VARIABLES
    size,               \* constructor argument: [x |-> width, y |-> height]
    number_of_classes,  \* constructor argument
    heap,               \* array objects: id -> [0..n-1 -> Int]
    lists,              \* list objects: id -> list of <<dx, dy>>
    self_grid,          \* Generator_RB._grid   (reference)
    self_coords,        \* Generator_RB._coords (list of <<x, y>>)
    self_vic,           \* Generator_RB._vic    (reference to a list)
    vic_it,             \* <<>> or <<VicinityIterator object>>
    cc,                 \* <<>> or <<Checker object>>
    new_grid,           \* local of Generator_RB.execute (reference or None)
    pc,                 \* position in the running operation
    result,             \* value returned by Generator_RB.execute
    attempts,           \* per Checker call of the last round: did it call vic_it.execute
    cascaded,           \* did the last round label a coordinate whose ring
                        \* neighbours were all zero when the round began
    call                \* a direct call of a module-level function or of the iterator

vars == <<size, number_of_classes, heap, lists, self_grid, self_coords, self_vic,
          vic_it, cc, new_grid, pc, result, attempts, cascaded, call>>

----------------------------------------------------------------------------
(* Bounds of the model *)

MaxCells == 6        \* grids have width*height <= MaxCells
MaxClasses == 2      \* number_of_classes <= MaxClasses
MaxDraws == 3        \* random_grid called directly: classes, instances <= MaxDraws
MaxFactor == 2       \* random_grid called directly: factor in 1..MaxFactor
MaxGridCells == 4    \* random_grid called directly: width*height <= MaxGridCells
MaxDiameter == 7     \* get_kernel_border_coordinates called with d <= MaxDiameter
MaxVicCells == 3     \* VicinityIterator used directly: width*height <= MaxVicCells

(* Program constants *)

RBFactor == 10       \* Generator_RB.__init__: random_grid(..., factor=10)
RBKernel == 5        \* Generator_RB.__init__: get_kernel_border_coordinates(5)
RBSkips == 3         \* Generator_RB.execute: skips = 3

None == <<>>
Ref(id) == <<id>>

----------------------------------------------------------------------------
(* Helpers *)

Abs(a) == IF a < 0 THEN -a ELSE a

Range(s) == {s[k] : k \in DOMAIN s}

NoDuplicates(s) == \A j, k \in DOMAIN s : j /= k => s[j] /= s[k]

RECURSIVE PermSeqs(_)
PermSeqs(S) ==
    IF S = {} THEN {<<>>}
    ELSE UNION {{<<e>> \o p : p \in PermSeqs(S \ {e})} : e \in S}

Sizes(maxCells) ==
    {[x |-> w, y |-> h] : w \in 1..maxCells, h \in 1..maxCells} \cap
    {s \in [x : 1..maxCells, y : 1..maxCells] : s.x * s.y <= maxCells}

----------------------------------------------------------------------------
(* numpy arrays: [rows, cols, data], data indexed by the flat position *)

Zeros(n) == [c \in 0..(n - 1) |-> 0]

Reshape(flat, rows, cols) == [rows |-> rows, cols |-> cols, data |-> flat]

\* numpy counts a negative index from the end of its axis
Index(i, n) == IF i < 0 THEN i + n ELSE i

FlatIndex(a, y, x) == Index(y, a.rows) * a.cols + Index(x, a.cols)

At(a, y, x) == a.data[FlatIndex(a, y, x)]

SetAt(a, y, x, v) == [a EXCEPT !.data[FlatIndex(a, y, x)] = v]

(* np.random.shuffle(list): the list becomes a permutation of itself.
   ShuffleCoords, of the coordinate list: every permutation.
   ShuffleVic, of the neighbour offsets (8, 16, 24 ... of them): every
   rotation, so that each offset can be the first one tried. *)
ShuffleCoords(s) == {[k \in 1..Len(s) |-> s[p[k]]] : p \in PermSeqs(1..Len(s))}

Rotation(s, r) == [k \in 1..Len(s) |-> s[((k - 1 + r) % Len(s)) + 1]]

ShuffleVic(s) == IF s = <<>> THEN {<<>>} ELSE {Rotation(s, r) : r \in 0..(Len(s) - 1)}

----------------------------------------------------------------------------
(* get_kernel_border_coordinates(d) *)

Primitive(border) == [k \in 1..(2 * border + 1) |-> k - 1 - border]

OnBorderCorners(x, y, border) == Abs(x) = border /\ Abs(y) = border

OnBorder(x, y, border) == Abs(x) = border \/ Abs(y) = border

get_kernel_border_coordinates(d) ==
    LET border == d \div 2
        primitive == IF border >= 0 THEN Primitive(border) ELSE <<>>
        n == Len(primitive)
        pairs == [k \in 1..(n * n) |->
                    <<primitive[((k - 1) \div n) + 1], primitive[((k - 1) % n) + 1]>>]
    IN  SelectSeq(pairs, LAMBDA o : OnBorder(o[1], o[2], border))

----------------------------------------------------------------------------
(* random_grid(size, classes, factor, instances) *)

\* np.random.choice(n, k, replace): the possible draws, or {} when numpy raises
\* ValueError (n = 0 with k > 0, or k > n without replacement)
Choice(n, k, replace) ==
    IF n = 0 /\ k > 0 THEN {}
    ELSE IF replace THEN [1..k -> 0..(n - 1)]
    ELSE {c \in [1..k -> 0..(n - 1)] : NoDuplicates(c)}

SeedLabelFromZero(i, factor) == (i - 1) * factor

SeedLabel(i, factor) == i * factor

\* for c in coords: grid[c] = i * factor; i = i + 1
RECURSIVE Scatter(_, _, _, _)
Scatter(grid, coords, i, factor) ==
    IF i > Len(coords) THEN grid
    ELSE Scatter([grid EXCEPT ![coords[i]] = SeedLabel(i, factor)], coords, i + 1, factor)

\* [(x, y) for x in X for y in Y]
ColumnMajor(sz) ==
    [k \in 1..(sz.x * sz.y) |-> <<(k - 1) \div sz.y, (k - 1) % sz.y>>]

GridCoords(grid, sz) ==
    SelectSeq(ColumnMajor(sz), LAMBDA c : At(grid, c[2], c[1]) = 0)

SeedDrawsWithReplacement(sz, classes, instances) ==
    IF instances < classes
    THEN Choice(sz.x * sz.y, classes, TRUE)
    ELSE Choice(sz.x * sz.y, instances, TRUE)

\* the coords np.random.choice can draw
SeedDraws(sz, classes, instances) ==
    IF instances < classes
    THEN Choice(sz.x * sz.y, classes, FALSE)
    ELSE Choice(sz.x * sz.y, instances, TRUE)

\* lines 74-84, for the coords drawn: (grid, grid_coords)
RandomGridFrom(sz, factor, coords) ==
    LET flat == Scatter(Zeros(sz.x * sz.y), coords, 1, factor)
        grid == Reshape(flat, sz.y, sz.x)
    IN  [grid |-> grid, grid_coords |-> GridCoords(grid, sz)]

\* the possible returns (grid, grid_coords); empty when the call raises
random_grid(sz, classes, factor, instances) ==
    {RandomGridFrom(sz, factor, coords) : coords \in SeedDraws(sz, classes, instances)}

----------------------------------------------------------------------------
(* VicinityIterator: [grid, size, vic], grid a reference to an array and vic
   a reference to a list *)

VicinityIterator(grid, hp, border_coordinates) ==
    [grid |-> grid,
     size |-> [x |-> hp[grid[1]].cols, y |-> hp[grid[1]].rows],
     vic  |-> border_coordinates]

\* the remainder truncated towards zero, as in C
WrapTruncated(a, n) == IF a < 0 THEN -((-a) % n) ELSE a % n

\* Python's %: the result has the sign of the (positive) divisor
Wrap(a, n) == a % n

Neighbour(sz, x, y, o) == <<Wrap(x + o[1], sz.x), Wrap(y + o[2], sz.y)>>

\* index of the first offset of vic whose neighbour is nonzero in canon, else 0
RECURSIVE FirstHit(_, _, _, _, _, _)
FirstHit(vic, canon, sz, x, y, k) ==
    IF k > Len(vic) THEN 0
    ELSE LET p == Neighbour(sz, x, y, vic[k])
         IN  IF At(canon, p[2], p[1]) /= 0 THEN k
             ELSE FirstHit(vic, canon, sz, x, y, k + 1)

\* the positions (xx, yy) read by the loop, in order
Looked(vic, sz, x, y, hit) ==
    [k \in 1..(IF hit = 0 THEN Len(vic) ELSE hit) |-> Neighbour(sz, x, y, vic[k])]

WriteTargetTransposed(hp, target, y, x, v) ==
    [hp EXCEPT ![target[1]] = SetAt(hp[target[1]], x, y, v)]

\* grid[y, x] = self._grid[yy, xx]
WriteTarget(hp, target, y, x, v) ==
    [hp EXCEPT ![target[1]] = SetAt(hp[target[1]], y, x, v)]

\* execute(x, y, grid): the possible outcomes, one per shuffle; ls is the
\* store of lists, hp the heap of arrays
VicExecute(it, ls, hp, x, y, grid) ==
    {LET canon == hp[it.grid[1]]
         hit == FirstHit(vic, canon, it.size, x, y, 1)
         p == Neighbour(it.size, x, y, vic[hit])
     IN  [lists  |-> [ls EXCEPT ![it.vic[1]] = vic],
          heap   |-> IF hit = 0 THEN hp
                     ELSE WriteTarget(hp, grid, y, x, At(canon, p[2], p[1])),
          ret    |-> hit /= 0,
          looked |-> Looked(vic, it.size, x, y, hit)]
     : vic \in ShuffleVic(ls[it.vic[1]])}

----------------------------------------------------------------------------
(* Generator_RB.Checker: [i, skips, coord_len, grid]; its _it is the one
   VicinityIterator of the run, held in vic_it *)

Checker(skips, coord_len, grid) ==
    [i |-> 0, skips |-> skips, coord_len |-> coord_len, grid |-> grid]

CheckPixelAttemptsUpToSkips(i, skips, sz) == (i % skips = 0) \/ sz <= skips

\* _checkPixel: if not i % skips or size < skips
CheckPixelAttempts(i, skips, sz) == (i % skips = 0) \/ sz < skips

\* _checkPixel(i, skips, size, new_grid, vic_it, x, y): the possible outcomes
\* [lists, heap, ret, attempted]
CheckPixel(i, skips, sz, ng, it, ls, hp, x, y) ==
    IF CheckPixelAttempts(i, skips, sz)
    THEN {[lists |-> o.lists, heap |-> o.heap, ret |-> o.ret, attempted |-> TRUE]
          : o \in VicExecute(it, ls, hp, x, y, ng)}
    ELSE {[lists |-> ls, heap |-> hp, ret |-> FALSE, attempted |-> FALSE]}

CheckerCallOneTooMany(ck, it, ls, hp, x, y) ==
    LET i == (ck.i + 1) % (ck.skips + 1)
    IN  {[cc |-> [ck EXCEPT !.i = i], lists |-> o.lists, heap |-> o.heap,
          ret |-> ~o.ret, attempted |-> o.attempted]
         : o \in CheckPixel(i, ck.skips, ck.coord_len, ck.grid, it, ls, hp, x, y)}

CheckerCallWithoutNot(ck, it, ls, hp, x, y) ==
    LET i == (ck.i + 1) % ck.skips
    IN  {[cc |-> [ck EXCEPT !.i = i], lists |-> o.lists, heap |-> o.heap,
          ret |-> o.ret, attempted |-> o.attempted]
         : o \in CheckPixel(i, ck.skips, ck.coord_len, ck.grid, it, ls, hp, x, y)}

\* __call__(x, y): self._i = (self._i + 1) % self._skips; return not _checkPixel(...)
CheckerCall(ck, it, ls, hp, x, y) ==
    LET i == (ck.i + 1) % ck.skips
    IN  {[cc |-> [ck EXCEPT !.i = i], lists |-> o.lists, heap |-> o.heap,
          ret |-> ~o.ret, attempted |-> o.attempted]
         : o \in CheckPixel(i, ck.skips, ck.coord_len, ck.grid, it, ls, hp, x, y)}

KeepCoordInFront(kept, c) == <<c>> \o kept

\* the list comprehension appends the coordinates that pass, in order
KeepCoord(kept, c) == Append(kept, c)

\* [(x, y) for (x, y) in self._coords if cc(x, y)], from position k on; the
\* state of the comprehension is st = [lists, heap, cc, kept, attempts].
\* Every call of the iterator shuffles its list afresh, so the order one call
\* leaves behind has no effect on the next: with ordered = FALSE the list is
\* kept up to its order (st.lists stays as it was), with ordered = TRUE the
\* order each call leaves is kept.
RECURSIVE Filter(_, _, _, _, _)
Filter(st, it, coords, k, ordered) ==
    IF k > Len(coords) THEN {st}
    ELSE LET outs == {[lists     |-> IF ordered THEN o.lists ELSE st.lists,
                       heap      |-> o.heap,
                       cc        |-> o.cc,
                       ret       |-> o.ret,
                       attempted |-> o.attempted]
                      : o \in CheckerCall(st.cc, it, st.lists, st.heap,
                                          coords[k][1], coords[k][2])}
         IN  UNION {Filter([lists    |-> o.lists,
                            heap     |-> o.heap,
                            cc       |-> o.cc,
                            kept     |-> IF o.ret THEN KeepCoord(st.kept, coords[k])
                                         ELSE st.kept,
                            attempts |-> Append(st.attempts, o.attempted)],
                           it, coords, k + 1, ordered)
                    : o \in outs}

----------------------------------------------------------------------------
(* Generator_RB *)

ValidArgs ==
    {a \in [size : Sizes(MaxCells), classes : 1..MaxClasses] :
        a.classes <= a.size.x * a.size.y}

\* the state after Generator_RB(size, number_of_classes)
Constructed(args) ==
    \E a \in args :
      \E rg \in random_grid(a.size, a.classes, RBFactor, 0) :
        /\ size = a.size
        /\ number_of_classes = a.classes
        /\ heap = (1 :> rg.grid)
        /\ lists = <<get_kernel_border_coordinates(RBKernel)>>
        /\ self_grid = Ref(1)
        /\ self_coords = rg.grid_coords
        /\ self_vic = Ref(1)
        /\ vic_it = None
        /\ cc = None
        /\ new_grid = None
        /\ pc = "constructed"
        /\ result = None
        /\ attempts = <<>>
        /\ cascaded = FALSE
        /\ call = None

Init == Constructed(ValidArgs)

SameList(ls, ref) == [lists |-> ls, ref |-> ref]

\* copy.deepcopy(list): a new list object with the same elements
DeepCopy(ls, ref) == [lists |-> Append(ls, ls[ref[1]]), ref |-> Ref(Len(ls) + 1)]

\* execute, lines 163-173: up to the first test of the loop
ExecuteStart ==
    /\ pc = "constructed"
    /\ \E shuffled \in ShuffleCoords(self_coords) :
         LET vic == DeepCopy(lists, self_vic)
         IN
           /\ self_coords' = shuffled
           /\ lists' = vic.lists
           /\ vic_it' = <<VicinityIterator(self_grid, heap, vic.ref)>>
           /\ new_grid' = None
           /\ cc' = <<Checker(RBSkips, Len(shuffled), None)>>
    /\ pc' = "while"
    /\ UNCHANGED <<size, number_of_classes, heap, self_grid, self_vic, result,
                   attempts, cascaded, call>>

\* while self._coords: the list is not empty
WhileEnter ==
    /\ pc = "while"
    /\ self_coords /= <<>>
    /\ pc' = "round"
    /\ UNCHANGED <<size, number_of_classes, heap, lists, self_grid, self_coords,
                   self_vic, vic_it, cc, new_grid, result, attempts, cascaded, call>>

\* did a round that began with the arrays hp and ended with the arrays hp2
\* label a coordinate of coords all of whose ring neighbours were zero in hp
Cascaded(it, ls, hp, hp2, coords) ==
    \E k \in DOMAIN coords :
        /\ At(hp2[it.grid[1]], coords[k][2], coords[k][1]) /= 0
        /\ \A o \in Range(ls[it.vic[1]]) :
              LET p == Neighbour(it.size, coords[k][1], coords[k][2], o)
              IN  At(hp[it.grid[1]], p[2], p[1]) = 0

Snapshot(hp, grid) ==
    [heap |-> (hp @@ ((Len(hp) + 1) :> hp[grid[1]])), ref |-> Ref(Len(hp) + 1)]

\* new_grid = self._grid: another name of the same array
Alias(hp, grid) == [heap |-> hp, ref |-> grid]

\* self._grid[:] = new_grid[:]
WriteBack(hp, grid, ng) == [hp EXCEPT ![grid[1]].data = hp[ng[1]].data]

\* one round, lines 175-183; ordered as for Filter
RoundKeeping(ordered) ==
    /\ pc = "round"
    /\ LET bound == Alias(heap, self_grid)
           ng == bound.ref
           st0 == [lists |-> lists, heap |-> bound.heap,
                   cc |-> [cc[1] EXCEPT !.grid = ng],
                   kept |-> <<>>, attempts |-> <<>>]
       IN  \E st \in Filter(st0, vic_it[1], self_coords, 1, ordered) :
             /\ new_grid' = ng
             /\ self_coords' = st.kept
             /\ lists' = st.lists
             /\ heap' = WriteBack(st.heap, self_grid, ng)
             /\ cc' = <<st.cc>>
             /\ attempts' = st.attempts
             /\ cascaded' = Cascaded(vic_it[1], lists, heap,
                                     WriteBack(st.heap, self_grid, ng), self_coords)
    /\ pc' = "while"
    /\ UNCHANGED <<size, number_of_classes, self_grid, self_vic, vic_it, result, call>>

Round == RoundKeeping(FALSE)

\* while self._coords: the list is empty; return new_grid
Return ==
    /\ pc = "while"
    /\ self_coords = <<>>
    /\ result' = new_grid
    /\ pc' = "done"
    /\ UNCHANGED <<size, number_of_classes, heap, lists, self_grid, self_coords,
                   self_vic, vic_it, cc, new_grid, attempts, cascaded, call>>

Next == ExecuteStart \/ WhileEnter \/ Round \/ Return

Spec == Init /\ [][Next]_vars

\* The interpreter keeps running execute: whenever control stands before a
\* statement it moves on.  Each of ExecuteStart, WhileEnter, Round and Return
\* moves pc, and one of them is enabled at each of these positions.
ControlMoves ==
    /\ pc \in {"constructed", "while", "round"}
    /\ pc' \in {"while", "round", "done"}
    /\ pc' /= pc

FairSpec == Spec /\ WF_pc(ControlMoves)

\* Generator_RB on one row of RowWidth cells with one class: the smallest grid
\* on which a cell has labeled cells outside its ring while two coordinates
\* are attempted in one round
RowWidth == 7

RowArgs == {[size |-> [x |-> RowWidth, y |-> 1], classes |-> 1]}

InitRow == Constructed(RowArgs)

SpecRow == InitRow /\ [][Next]_vars

\* Generator_RB on grids of up to MaxOrderCells cells, the order of the
\* iterator's list kept as each call leaves it
MaxOrderCells == 3

OrderArgs ==
    {a \in [size : Sizes(MaxOrderCells), classes : 1..MaxClasses] :
        a.classes <= a.size.x * a.size.y}

InitOrdered == Constructed(OrderArgs)

RoundOrdered == RoundKeeping(TRUE)

NextOrdered == ExecuteStart \/ WhileEnter \/ RoundOrdered \/ Return

SpecOrdered == InitOrdered /\ [][NextOrdered]_vars

----------------------------------------------------------------------------
(* random_grid called directly *)

Idle ==
    /\ number_of_classes = 0
    /\ self_grid = None
    /\ self_coords = <<>>
    /\ self_vic = None
    /\ cc = None
    /\ new_grid = None
    /\ result = None
    /\ attempts = <<>>
    /\ cascaded = FALSE

IdleVars == <<number_of_classes, self_grid, self_coords, self_vic, cc, new_grid,
              result, attempts, cascaded>>

InitRG ==
    /\ size \in Sizes(MaxGridCells)
    /\ call \in [classes : 1..MaxDraws, factor : 1..MaxFactor,
                 instances : 0..MaxDraws, coords : {<<>>}]
    /\ heap = <<>>
    /\ lists = <<>>
    /\ vic_it = None
    /\ pc = "random_grid"
    /\ Idle

\* random_grid returns: the array it built becomes object 1 of the heap, the
\* list of coordinates the result; call.coords remembers what np.random.choice drew
RandomGridReturns ==
    /\ pc = "random_grid"
    /\ \E coords \in SeedDraws(size, call.classes, call.instances) :
         LET rg == RandomGridFrom(size, call.factor, coords)
         IN
           /\ heap' = <<rg.grid>>
           /\ result' = <<Ref(1), rg.grid_coords>>
           /\ call' = [call EXCEPT !.coords = coords]
    /\ pc' = "returned"
    /\ UNCHANGED <<size, number_of_classes, lists, self_grid, self_coords, self_vic,
                   vic_it, cc, new_grid, attempts, cascaded>>

\* np.random.choice raises ValueError, and so does random_grid
RandomGridRaises ==
    /\ pc = "random_grid"
    /\ SeedDraws(size, call.classes, call.instances) = {}
    /\ pc' = "ValueError"
    /\ UNCHANGED <<size, number_of_classes, heap, lists, self_grid, self_coords,
                   self_vic, vic_it, cc, new_grid, result, attempts, cascaded, call>>

NextRG == RandomGridReturns \/ RandomGridRaises

SpecRG == InitRG /\ [][NextRG]_vars

----------------------------------------------------------------------------
(* get_kernel_border_coordinates and VicinityIterator used directly: a
   canonical array (object 1) with any content, a target that is either the
   same array or another one (object 2) of the same shape *)

Diameters == {d \in 3..MaxDiameter : d % 2 = 1}

Contents(sz) == [0..(sz.x * sz.y - 1) -> {0, RBFactor, 2 * RBFactor}]

InitVic ==
    /\ size \in Sizes(MaxVicCells)
    /\ \E data \in Contents(size) :
         heap = <<Reshape(data, size.y, size.x), Reshape(Zeros(size.x * size.y), size.y, size.x)>>
    /\ call \in [d : Diameters]
    /\ lists = <<>>
    /\ vic_it = None
    /\ pc = "kernel"
    /\ Idle

\* VicinityIterator(grid, get_kernel_border_coordinates(d))
VicConstruct ==
    /\ pc = "kernel"
    /\ lists' = <<get_kernel_border_coordinates(call.d)>>
    /\ vic_it' = <<VicinityIterator(Ref(1), heap, Ref(1))>>
    /\ call' = [d |-> call.d,
                border_coordinates |-> get_kernel_border_coordinates(call.d)]
    /\ pc' = "iterator"
    /\ UNCHANGED <<size, heap>>
    /\ UNCHANGED IdleVars

\* the first vic_it.execute(x, y, grid) of the iterator
VicCall ==
    /\ pc = "iterator"
    /\ \E x \in 0..(size.x - 1), y \in 0..(size.y - 1), grid \in {Ref(1), Ref(2)} :
         \E o \in VicExecute(vic_it[1], lists, heap, x, y, grid) :
           /\ heap' = o.heap
           /\ lists' = o.lists
           /\ call' = [d |-> call.d,
                       border_coordinates |-> call.border_coordinates,
                       x |-> x, y |-> y, grid |-> grid, ret |-> o.ret,
                       looked |-> o.looked, before |-> heap]
    /\ pc' = "executed"
    /\ UNCHANGED <<size, vic_it>>
    /\ UNCHANGED IdleVars

NextVic == VicConstruct \/ VicCall

SpecVic == InitVic /\ [][NextVic]_vars

\* the same with any diameter, odd or even, down to -1
AnyDiameters == (0 - 1)..MaxDiameter

InitKernel ==
    /\ size \in Sizes(MaxVicCells)
    /\ \E data \in Contents(size) :
         heap = <<Reshape(data, size.y, size.x), Reshape(Zeros(size.x * size.y), size.y, size.x)>>
    /\ call \in [d : AnyDiameters]
    /\ lists = <<>>
    /\ vic_it = None
    /\ pc = "kernel"
    /\ Idle

SpecKernel == InitKernel /\ [][NextVic]_vars

----------------------------------------------------------------------------
(* Properties of Generator_RB *)

TheGrid == heap[self_grid[1]]

Cells == {<<x, y>> : x \in 0..(size.x - 1), y \in 0..(size.y - 1)}

Unlabeled(g) == {c \in Cells : At(g, c[2], c[1]) = 0}

Values(g) == {At(g, c[2], c[1]) : c \in Cells} \ {0}

SeedLabels == {RBFactor * k : k \in 1..number_of_classes}

\* a is b with some elements left out
RECURSIVE IsSubSeq(_, _)
IsSubSeq(a, b) ==
    IF a = <<>> THEN TRUE
    ELSE IF b = <<>> THEN FALSE
    ELSE IF Head(a) = Head(b) THEN IsSubSeq(Tail(a), Tail(b))
    ELSE IsSubSeq(a, Tail(b))

\* C1: execute terminates: the list of unlabeled coordinates becomes empty and
\* execute returns, whatever the seeding and the shuffles.
C1_Terminates == <>(pc = "done")

\* C2: the value execute returns is the size.y x size.x grid, without a zero.
C2_ReturnsFullGrid ==
    pc = "done" =>
        /\ result /= None
        /\ heap[result[1]].rows = size.y
        /\ heap[result[1]].cols = size.x
        /\ Unlabeled(heap[result[1]]) = {}

\* C3: at construction and after every round a coordinate is in the list
\* exactly when its cell is 0.
C3_ListedIffZero == Range(self_coords) = Unlabeled(TheGrid)

C3_Witness ==
    /\ pc = "while"
    /\ attempts /= <<>>
    /\ Len(self_coords) < Len(attempts)
    /\ self_coords /= <<>>

\* C4: the nonzero values of the grid are exactly the seed labels, and a
\* nonzero cell keeps its value.
C4_OnlySeedLabels ==
    /\ [](Values(TheGrid) = SeedLabels)
    /\ [][\A c \in Cells :
            At(TheGrid, c[2], c[1]) /= 0 => At(TheGrid', c[2], c[1]) = At(TheGrid, c[2], c[1])]_vars

C4_Witness ==
    /\ pc = "done"
    /\ number_of_classes = 2
    /\ \E c, d \in Cells :
         /\ c /= d
         /\ At(TheGrid, c[2], c[1]) = At(TheGrid, d[2], d[1])

\* C5: across a round the new list is a sub-list of the old one, without
\* duplicates, and no labeled coordinate becomes unlabeled.
C5_ShrinksMonotonically ==
    [][pc = "round" =>
        /\ IsSubSeq(self_coords', self_coords)
        /\ NoDuplicates(self_coords')
        /\ Len(self_coords') <= Len(self_coords)
        /\ Unlabeled(TheGrid') \subseteq Unlabeled(TheGrid)]_vars

C5_Witness ==
    /\ pc = "while"
    /\ self_coords /= <<>>
    /\ Len(attempts) >= Len(self_coords) + 2

\* C6: in a round that starts with fewer than skips coordinates every Checker
\* call attempts resolution.
C6_FullSpeedFinish ==
    (attempts /= <<>> /\ Len(attempts) < RBSkips) =>
        \A k \in DOMAIN attempts : attempts[k]

\* C10: a round leaves the array held by the iterator (its canonical grid) as
\* it was.
C10_CanonicalUntouched ==
    [][pc = "round" => heap'[vic_it[1].grid[1]] = heap[vic_it[1].grid[1]]]_vars

----------------------------------------------------------------------------
(* Properties of random_grid *)

Seeded(g) == Cells \ Unlabeled(g)

Draws == IF call.instances < call.classes THEN call.classes ELSE call.instances

DrawnCells == {<<c % size.x, c \div size.x>> : c \in Range(call.coords)}

LabelsOk(g) ==
    /\ \A c, d \in Seeded(g) : c /= d => At(g, c[2], c[1]) /= At(g, d[2], d[1])
    /\ Values(g) \subseteq {call.factor * k : k \in 1..Draws}

----------------------------------------------------------------------------
(* Properties of get_kernel_border_coordinates and VicinityIterator *)

Max(a, b) == IF a > b THEN a ELSE b

Ring(border) ==
    {o \in ((-border - 1)..(border + 1)) \X ((-border - 1)..(border + 1)) :
        Max(Abs(o[1]), Abs(o[2])) = border}

\* C8: for odd d >= 3 the list has no duplicates and holds exactly the offsets
\* with max(|dx|, |dy|) = d // 2: 4*(d-1) of them, 8 for d = 3, 16 for d = 5,
\* never (0, 0).
C8_KernelIsRing ==
    pc /= "kernel" =>
        LET r == call.border_coordinates
        IN  /\ NoDuplicates(r)
            /\ Range(r) = Ring(call.d \div 2)
            /\ Len(r) = 4 * (call.d - 1)
            /\ call.d = 3 => Len(r) = 8
            /\ call.d = 5 => Len(r) = 16
            /\ <<0, 0>> \notin Range(r)

C8_Witness ==
    /\ pc = "iterator"
    /\ call.d = 5
    /\ Len(call.border_coordinates) = 16

\* C9: every position execute looks up lies inside the grid and is the
\* coordinate plus the offset modulo the width and the height; x = 0 with
\* dx = -1 gives width - 1 and y = 0 with dy = -1 gives height - 1.
C9_LookupsWrap ==
    pc = "executed" =>
        \A k \in DOMAIN call.looked :
            LET o == lists[vic_it[1].vic[1]][k]
                p == call.looked[k]
            IN  /\ p[1] \in 0..(size.x - 1)
                /\ p[2] \in 0..(size.y - 1)
                /\ (call.x + o[1] - p[1]) % size.x = 0
                /\ (call.y + o[2] - p[2]) % size.y = 0
                /\ (call.x = 0 /\ o[1] = -1) => p[1] = size.x - 1
                /\ (call.y = 0 /\ o[2] = -1) => p[2] = size.y - 1

C9_Witness ==
    /\ pc = "executed"
    /\ size.x = 3
    /\ call.x = 0
    /\ \E k \in DOMAIN call.looked :
         /\ lists[vic_it[1].vic[1]][k][1] = -1
         /\ call.looked[k][1] = 2

\* C11: a request for an even diameter or a diameter below 3 fails with
\* InvalidKernelError and returns no offset list.
C11_InvalidKernelRejected ==
    (call.d % 2 = 0 \/ call.d < 3) => pc \in {"kernel", "InvalidKernelError"}

\* C12 as stated: random_grid fails with a sampling error, and returns no grid,
\* whenever classes > width*height, whatever instances is.
C12_AlwaysSamplingError ==
    (call.classes > size.x * size.y) => pc /= "returned"

TooManyClasses == call.classes > size.x * size.y

DrawsUnique == call.instances < call.classes

\* C12: random_grid fails with the sampling error (numpy's ValueError), and
\* returns no grid, exactly when classes > width*height and instances < classes
\* (the draw without replacement); with instances >= classes the draw is with
\* replacement and random_grid returns a grid, also when classes > width*height.
C12_SamplingErrorWithoutReplacement ==
    /\ (pc = "random_grid" /\ TooManyClasses /\ DrawsUnique) =>
         (ENABLED RandomGridRaises /\ ~ ENABLED RandomGridReturns)
    /\ (pc = "random_grid" /\ ~ (TooManyClasses /\ DrawsUnique)) =>
         (ENABLED RandomGridReturns /\ ~ ENABLED RandomGridRaises)
    /\ pc = "ValueError" =>
         (TooManyClasses /\ DrawsUnique /\ heap = <<>> /\ result = None)
    /\ pc = "returned" => ~ (TooManyClasses /\ DrawsUnique)

C12_Witness ==
    /\ pc = "ValueError"
    /\ TooManyClasses
    /\ DrawsUnique
    /\ heap = <<>>
    /\ result = None

\* C13: every round begins by shuffling the unlabeled-coordinate list: when a
\* further round starts after some round, the order in which it processes the
\* survivors can be any permutation of them.
C13_ReshuffledEachRound ==
    (pc = "while" /\ attempts /= <<>> /\ self_coords /= <<>>) =>
        \A order \in ShuffleCoords(self_coords) :
            ENABLED (WhileEnter /\ self_coords' = order)

\* the cells that a wrapped offset of the radius-border ring reaches from (x, y)
RingNeighbours(x, y, border) ==
    {p \in Cells : \E o \in Ring(border) :
        /\ (x + o[1] - p[1]) % size.x = 0
        /\ (y + o[2] - p[2]) % size.y = 0}

C15_WritesVisibleInRound ==
    [][pc = "round" =>
        /\ vic_it[1].grid = self_grid
        /\ new_grid' = self_grid
        /\ cc'[1].grid = self_grid
        /\ \A k \in DOMAIN self_coords :
             attempts'[k] =>
               LET c == self_coords[k]
                   labeled == Cells \ Unlabeled(TheGrid)
                   earlier == {self_coords[j] : j \in 1..(k - 1)} \ Unlabeled(TheGrid')
               IN  (At(TheGrid', c[2], c[1]) /= 0) <=>
                   (RingNeighbours(c[1], c[2], RBKernel \div 2)
                        \cap (labeled \cup earlier) /= {})
    ]_vars

\* a round has just labeled a coordinate whose ring neighbours were all zero
\* when it began
C15_Witness ==
    /\ pc = "while"
    /\ cascaded
    /\ \E k \in DOMAIN attempts : attempts[k]

\* C16: while throttling is active (the Checker's coord_len >= skips) a Checker
\* call attempts resolution only when its counter, incremented by one modulo
\* skips on every call, becomes 0: exactly one of every skips consecutive calls
\* attempts; every other call keeps its coordinate in the list and leaves the
\* grid unchanged.
C16_ThrottledAttempts ==
    [][(pc = "round" /\ cc[1].coord_len >= cc[1].skips) =>
        /\ Len(attempts') = Len(self_coords)
        /\ cc'[1].i = (cc[1].i + Len(self_coords)) % cc[1].skips
        /\ \A k \in DOMAIN self_coords :
             /\ attempts'[k] <=> ((cc[1].i + k) % cc[1].skips = 0)
             /\ ~ attempts'[k] =>
                  /\ self_coords[k] \in Range(self_coords')
                  /\ At(TheGrid', self_coords[k][2], self_coords[k][1]) = 0
        /\ \A k \in 1..(Len(self_coords) - cc[1].skips + 1) :
             Cardinality({j \in k..(k + cc[1].skips - 1) : attempts'[j]}) = 1
        /\ \A c \in Cells :
             At(TheGrid', c[2], c[1]) /= At(TheGrid, c[2], c[1]) =>
                 \E k \in DOMAIN self_coords : attempts'[k] /\ self_coords[k] = c
    ]_vars

\* a throttled round of at least four calls, two of them attempts, one of which
\* labeled its coordinate
C16_Witness ==
    /\ pc = "while"
    /\ cc[1].coord_len >= cc[1].skips
    /\ Len(attempts) > cc[1].skips
    /\ Cardinality({k \in DOMAIN attempts : attempts[k]}) = 2
    /\ Len(self_coords) < Len(attempts)

\* C17: shuffling never alters the canonical neighbour-offset list: at every
\* point of Generator_RB.execute, Generator_RB._vic is the sequence built at
\* construction, and the iterator's working list is another list that is a
\* permutation of it (the same 16 offsets, none lost or duplicated).
C17_CanonicalOffsetsKept ==
    /\ lists[self_vic[1]] = get_kernel_border_coordinates(RBKernel)
    /\ vic_it /= None =>
         LET working == lists[vic_it[1].vic[1]]
         IN  /\ vic_it[1].vic /= self_vic
             /\ Len(working) = 4 * (RBKernel - 1)
             /\ NoDuplicates(working)
             /\ Range(working) = Range(lists[self_vic[1]])

\* after a round with an attempt the working list stands in another order
C17_Witness ==
    /\ pc = "while"
    /\ \E k \in DOMAIN attempts : attempts[k]
    /\ lists[vic_it[1].vic[1]] /= lists[self_vic[1]]
    /\ lists[self_vic[1]] = get_kernel_border_coordinates(RBKernel)

\* C18: the Checker's counter is not reset between rounds and the survivors
\* keep their order: when a round that started with a list whose length is a
\* multiple of skips removed no coordinate, the next round attempts resolution
\* for exactly the same coordinates, those at the positions where the counter
\* wraps to 0, and for no others.
C18_SameAttemptsNextRound ==
    [][(/\ pc = "round"
        /\ attempts /= <<>>
        /\ Len(attempts) = Len(self_coords)
        /\ Len(self_coords) % cc[1].skips = 0) =>
        /\ cc'[1].i = cc[1].i
        /\ {self_coords[k] : k \in {j \in DOMAIN attempts' : attempts'[j]}}
             = {self_coords[k] : k \in {j \in DOMAIN attempts : attempts[j]}}
        /\ \A k \in DOMAIN self_coords :
             attempts'[k] <=> ((cc[1].i + k) % cc[1].skips = 0)
    ]_vars

\* a round on a list of skips coordinates has attempted one and removed none;
\* the round after it ends in this same state
C18_Witness ==
    /\ pc = "while"
    /\ attempts /= <<>>
    /\ Len(attempts) = Len(self_coords)
    /\ Len(self_coords) % cc[1].skips = 0
    /\ \E k \in DOMAIN attempts : attempts[k]
    /\ ENABLED WhileEnter

====
